---------------------------- MODULE Spec2Model ----------------------------
(***************************************************************************)
(* Model of the FogMoe/gcgserver sources:                                  *)
(*   - msg-polyfill/index.ts (and its compiled index.js): getPolyfillers,  *)
(*     polyfillGameMsg, polyfillResponse;                                  *)
(*   - bash/deploy-gcg-server.sh: the menu-driven deployment script.       *)
(* Three specifications share the module: SpecSelect (getPolyfillers),     *)
(* SpecDispatch (the two exported dispatcher functions) and SpecDeploy     *)
(* (the shell script).  Each leaves the other parts' variables untouched.  *)
(***************************************************************************)
EXTENDS Integers, Sequences, FiniteSets, TLC

VARIABLES
  \* ---- msg-polyfill ----
  polyfillRegistry,  \* the registry Map, as its entries() in iteration order
  pcSel,             \* position inside getPolyfillers
  selVersion,        \* getPolyfillers' argument `version`
  idx,               \* position of the for..of loop over entries()
  polyfillers,       \* the local array of {version, polyfiller}
  ret,               \* the value getPolyfillers returned
  earlier,           \* a remembered earlier dispatcher call (history)
  latest,            \* the most recent dispatcher call (history)
  nCalls,            \* number of dispatcher calls made so far
  \* ---- deploy-gcg-server.sh ----
  INSTALL_DEPS,      \* --install-deps given
  QUICK_RUN,         \* --run N ("" when absent)
  DEPENDENCIES_OK,   \* the script's global of that name
  tools,             \* required tools that `command -v` finds
  pc,                \* position in the script
  choice,            \* run_item's argument
  more,              \* words of the typed line not yet consumed by the for loop
  executed,          \* functions run so far by the current run_item
  startedOk,         \* history: whether every tool was present when run_item was entered
  wasFalse,          \* history: DEPENDENCIES_OK has been "false"
  exitCode,          \* exit status once the script has exited
  scriptFile,        \* content of the script file on disk
  backupFile,        \* content of <script>.backup
  download,          \* what curl left in /tmp/deploy-gcg-server-new.sh in this update
  serverDir,         \* $BASE_DIR/gcgserver exists
  clientDir          \* $BASE_DIR/galaxycardgame exists

selVars      == <<pcSel, selVersion, idx, polyfillers, ret>>
dispatchVars == <<earlier, latest, nCalls>>
deployVars   == <<INSTALL_DEPS, QUICK_RUN, DEPENDENCIES_OK, tools, pc, choice,
                  more, executed, startedOk, wasFalse, exitCode, scriptFile,
                  backupFile, download, serverDir, clientDir>>
vars         == <<polyfillRegistry, selVars, dispatchVars, deployVars>>

\* what the steps of one part leave alone
otherThanSelect   == <<polyfillRegistry, dispatchVars, deployVars>>
otherThanDispatch == <<polyfillRegistry, selVars, deployVars>>
otherThanDeploy   == <<polyfillRegistry, selVars, dispatchVars>>

(***************************************************************************)
(* Bounds                                                                  *)
(***************************************************************************)
\* registered versions are drawn from 1..MaxVersion, caller versions from
\* 0..MaxVersion+1 (below, inside and above the registry's range)
MaxVersion == 3
\* dispatcher calls per behaviour
MaxCalls == 3
\* required tools that may be absent when the script starts
MaxMissing == 2
\* words in one line typed at the menu prompt
MaxLine == 2

None == "none"

(***************************************************************************)
(* msg-polyfill: the registry                                              *)
(***************************************************************************)
RegVersions == 1..MaxVersion
CallerVersions == 0..(MaxVersion + 1)

\* sequences without repetition: a Map holds each key once
Injective(s) == \A i, j \in DOMAIN s : i # j => s[i] # s[j]

KeyOrders == { s \in UNION { [1..n -> RegVersions] : n \in 0..MaxVersion } : Injective(s) }

\* One registry entry: the version key and the polyfiller class stored under
\* it.  A class is named by the version it is registered for.
Entry(v) == [pVersion |-> v, polyfillerCls |-> v]

\* Every content and iteration (insertion) order of the registry Map.
Registries == { [i \in DOMAIN s |-> Entry(s[i])] : s \in KeyOrders }

RegistryInit == polyfillRegistry \in Registries

\* registries filled in version order
Ascending(reg) == \A i, j \in DOMAIN reg : i < j => reg[i].pVersion < reg[j].pVersion

RegistryInitAscending == polyfillRegistry \in { r \in Registries : Ascending(r) }

(***************************************************************************)
(* msg-polyfill: getPolyfillers                                            *)
(***************************************************************************)
\* (GateStrict, GateReversed: the test with the comparison changed)
GateStrict(version, pVersion) == version < pVersion
GateReversed(version, pVersion) == version >= pVersion
\* the loop's test, `version <= pVersion`
Gate(version, pVersion) == version <= pVersion

\* `new polyfillerCls()`
NewPolyfiller(cls) == [cls |-> cls]

\* one iteration of the for..of loop: push {version, polyfiller} when the gate passes
PushIfApplicable(arr, entry, version) ==
  IF Gate(version, entry.pVersion)
    THEN Append(arr, [version |-> entry.pVersion,
                      polyfiller |-> NewPolyfiller(entry.polyfillerCls)])
    ELSE arr

\* (the comparator with its operands exchanged)
CompareDescending(a, b) == b.version - a.version
\* the comparator handed to sort: (a, b) => a.version - b.version
Compare(a, b) == a.version - b.version

\* Array.prototype.sort with a comparator: a stable sort; x goes behind every
\* element the comparator does not place after it.
RECURSIVE InsertSorted(_, _)
InsertSorted(sorted, x) ==
  IF sorted = <<>> THEN <<x>>
  ELSE IF Compare(Head(sorted), x) > 0 THEN <<x>> \o sorted
  ELSE <<Head(sorted)>> \o InsertSorted(Tail(sorted), x)

RECURSIVE SortArray(_)
SortArray(arr) ==
  IF arr = <<>> THEN <<>>
  ELSE InsertSorted(SortArray(SubSeq(arr, 1, Len(arr) - 1)), arr[Len(arr)])

\* polyfillers.map(p => p.polyfiller)
MapPolyfiller(arr) == [i \in DOMAIN arr |-> arr[i].polyfiller]

RECURSIVE ScanRegistry(_, _, _)
ScanRegistry(reg, i, version) ==
  IF i = 0 THEN <<>>
  ELSE PushIfApplicable(ScanRegistry(reg, i - 1, version), reg[i], version)

\* getPolyfillers as a function of the registry and its argument
GetPolyfillers(reg, version) ==
  MapPolyfiller(SortArray(ScanRegistry(reg, Len(reg), version)))

SelInit ==
  /\ pcSel = "idle"
  /\ selVersion = 0
  /\ idx = 1
  /\ polyfillers = <<>>
  /\ ret = <<>>

\* a call: `const polyfillers = []` and the loop is entered
CallGetPolyfillers(version) ==
  /\ pcSel \in {"idle", "returned"}
  /\ pcSel' = "scan"
  /\ selVersion' = version
  /\ idx' = 1
  /\ polyfillers' = <<>>
  /\ ret' = <<>>
  /\ UNCHANGED otherThanSelect

\* one iteration of `for (const [pVersion, polyfillerCls] of ...entries())`
ScanEntry ==
  /\ pcSel = "scan"
  /\ idx <= Len(polyfillRegistry)
  /\ polyfillers' = PushIfApplicable(polyfillers, polyfillRegistry[idx], selVersion)
  /\ idx' = idx + 1
  /\ UNCHANGED <<pcSel, selVersion, ret>>
  /\ UNCHANGED otherThanSelect

\* polyfillers.sort(...)
SortStep ==
  /\ pcSel = "scan"
  /\ idx > Len(polyfillRegistry)
  /\ polyfillers' = SortArray(polyfillers)
  /\ pcSel' = "sorted"
  /\ UNCHANGED <<selVersion, idx, ret>>
  /\ UNCHANGED otherThanSelect

\* return polyfillers.map(...)
ReturnStep ==
  /\ pcSel = "sorted"
  /\ ret' = MapPolyfiller(polyfillers)
  /\ pcSel' = "returned"
  /\ UNCHANGED <<selVersion, idx, polyfillers>>
  /\ UNCHANGED otherThanSelect

SelNext ==
  \/ \E version \in CallerVersions : CallGetPolyfillers(version)
  \/ ScanEntry
  \/ SortStep
  \/ ReturnStep

(***************************************************************************)
(* msg-polyfill: the polyfiller capability (base-polyfiller.ts, which the  *)
(* sources import but do not contain) and the dispatch the specification   *)
(* describes: handles(msgTitle), transform(buffer), Malformed-Payload.     *)
(***************************************************************************)
MsgTitles == {"MSG_KNOWN", "MSG_UNKNOWN"}

\* payloads: byte sequences; the empty one is what no polyfiller can parse
Buffers == {<<>>, <<9>>}

\* values a call can settle with: undefined, a payload, an error
Undefined == [kind |-> "undefined", bytes |-> <<>>]
Payload(buffer) == [kind |-> "buffer", bytes |-> buffer]
ErrorValue(name) == [kind |-> name, bytes |-> <<>>]

\* polyfillers of odd versions declare MSG_KNOWN; nothing declares MSG_UNKNOWN
Handles(cls, msgTitle) == msgTitle = "MSG_KNOWN" /\ cls % 2 = 1

CanParse(cls, buffer) == buffer # <<>>

\* a transform leaves its mark, so the order of application shows in the output
Transform(cls, buffer) == Append(buffer, cls)

Fulfilled(value) == [outcome |-> "fulfilled", value |-> value]
Rejected(error) == [outcome |-> "rejected", value |-> error]

RECURSIVE ApplyChain(_, _, _)
ApplyChain(chain, msgTitle, buffer) ==
  IF chain = <<>> THEN Fulfilled(Payload(buffer))
  ELSE IF ~Handles(Head(chain).cls, msgTitle)
         THEN ApplyChain(Tail(chain), msgTitle, buffer)
  ELSE IF ~CanParse(Head(chain).cls, buffer)
         THEN Rejected(ErrorValue("Malformed-Payload"))
  ELSE ApplyChain(Tail(chain), msgTitle, Transform(Head(chain).cls, buffer))

\* what the specification's dispatcher yields for a call
IntendedDispatch(version, msgTitle, buffer) ==
  ApplyChain(GetPolyfillers(polyfillRegistry, version), msgTitle, buffer)

\* the selected polyfillers that declare msgTitle
Handlers(version, msgTitle) ==
  { i \in DOMAIN GetPolyfillers(polyfillRegistry, version) :
      Handles(GetPolyfillers(polyfillRegistry, version)[i].cls, msgTitle) }

(***************************************************************************)
(* msg-polyfill: polyfillGameMsg and polyfillResponse                      *)
(***************************************************************************)
\* (a body that answers from state left by earlier calls)
PolyfillGameMsgStateful(version, msgTitle, buffer) ==
  IF nCalls = 0 THEN Fulfilled(Undefined) ELSE Fulfilled(Payload(buffer))
\* `async function polyfillGameMsg(...) { return undefined; }`: the promise is
\* fulfilled with undefined
PolyfillGameMsg(version, msgTitle, buffer) == Fulfilled(Undefined)

\* `async function polyfillResponse(...) { return; }`
PolyfillResponse(version, msgTitle, buffer) == Fulfilled(Undefined)

CallRecord(fn, version, msgTitle, buffer, result) ==
  [fn |-> fn, version |-> version, msgTitle |-> msgTitle, buffer |-> buffer,
   outcome |-> result.outcome, value |-> result.value]

\* no call yet
NoCall == [fn |-> None, version |-> 0, msgTitle |-> None, buffer |-> <<>>,
           outcome |-> None, value |-> Undefined]

DispatchInit ==
  /\ earlier = NoCall
  /\ latest = NoCall
  /\ nCalls = 0

\* history: the call before this one is either remembered or not
Remember == earlier' \in {earlier, latest}

CallPolyfillGameMsg(version, msgTitle, buffer) ==
  /\ nCalls < MaxCalls
  /\ latest' = CallRecord("polyfillGameMsg", version, msgTitle, buffer,
                          PolyfillGameMsg(version, msgTitle, buffer))
  /\ Remember
  /\ nCalls' = nCalls + 1
  /\ UNCHANGED otherThanDispatch

CallPolyfillResponse(version, msgTitle, buffer) ==
  /\ nCalls < MaxCalls
  /\ latest' = CallRecord("polyfillResponse", version, msgTitle, buffer,
                          PolyfillResponse(version, msgTitle, buffer))
  /\ Remember
  /\ nCalls' = nCalls + 1
  /\ UNCHANGED otherThanDispatch

DispatchNext ==
  \/ \E version \in CallerVersions, msgTitle \in MsgTitles, buffer \in Buffers :
       CallPolyfillGameMsg(version, msgTitle, buffer)
  \/ \E version \in CallerVersions, msgTitle \in MsgTitles, buffer \in Buffers :
       CallPolyfillResponse(version, msgTitle, buffer)

(***************************************************************************)
(* deploy-gcg-server.sh                                                    *)
(***************************************************************************)
\* the tools check_dependencies looks for
RequiredTools == {"git", "curl", "wget", "unzip", "make", "npm", "tar"}

\* of those, what `apt install ...` in install_system_deps provides
\* (make through build-essential); tar is not in its package list
AptTools == {"wget", "unzip", "curl", "git", "npm", "make"}

\* menu items, and one word that is no menu item
Choices == {"0", "1", "2", "3", "4", "5", "6", "7", "8", "9", "10", "11",
            "12", "13", "14", "x"}

\* items whose function is modelled as one step
SimpleItems == {"2", "3", "4", "5", "6", "7", "8", "9", "10", "11"}

\* check_dependencies: succeeds when no tool is missing
CheckDependencies(t) == RequiredTools \subseteq t

\* (requires_dependencies with item 14 exempted as well)
RequiresDependenciesExceptUpdate(c) == c \notin {"0", "1", "14"}
\* requires_dependencies: every word but 0 and 1
RequiresDependencies(c) == c \notin {"0", "1"}

\* tool sets with at most MaxMissing required tools absent
ToolSets == { RequiredTools \ m : m \in { x \in SUBSET RequiredTools : Cardinality(x) <= MaxMissing } }

DeployInit ==
  /\ INSTALL_DEPS \in BOOLEAN
  /\ QUICK_RUN \in {""} \cup Choices
  /\ DEPENDENCIES_OK = "true"
  /\ tools \in ToolSets
  /\ pc = "start"
  /\ choice = None
  /\ more = 0
  /\ executed = <<>>
  /\ startedOk = TRUE
  /\ wasFalse = FALSE
  /\ exitCode = "running"
  /\ scriptFile = "current"
  /\ backupFile = None
  /\ download = None
  /\ serverDir \in BOOLEAN
  /\ clientDir \in BOOLEAN

\* the script is not running
DeployIdle ==
  /\ INSTALL_DEPS = FALSE
  /\ QUICK_RUN = ""
  /\ DEPENDENCIES_OK = "true"
  /\ tools = RequiredTools
  /\ pc = "off"
  /\ choice = None
  /\ more = 0
  /\ executed = <<>>
  /\ startedOk = TRUE
  /\ wasFalse = FALSE
  /\ exitCode = "running"
  /\ scriptFile = "current"
  /\ backupFile = None
  /\ download = None
  /\ serverDir = FALSE
  /\ clientDir = FALSE

fsVars == <<scriptFile, backupFile, serverDir, clientDir>>
argVars == <<INSTALL_DEPS, QUICK_RUN>>

\* the script ends with the given status (exit, or a failing command under set -e)
Exit(code) ==
  /\ pc' = "exited"
  /\ exitCode' = code

\* the startup dependency check
StartupCheck ==
  /\ pc = "start"
  /\ pc' = "main"
  /\ IF QUICK_RUN # "1" /\ ~INSTALL_DEPS /\ ~CheckDependencies(tools)
       THEN DEPENDENCIES_OK' = "false" /\ wasFalse' = TRUE
       ELSE UNCHANGED <<DEPENDENCIES_OK, wasFalse>>
  /\ UNCHANGED <<argVars, tools, choice, more, executed, startedOk, exitCode,
                 fsVars, download>>
  /\ UNCHANGED otherThanDeploy

\* `if [ -n "$QUICK_RUN" ]; then run_item "$QUICK_RUN"; exit 0; fi`, else the menu loop
Main ==
  /\ pc = "main"
  /\ IF QUICK_RUN # ""
       THEN pc' = "run_item" /\ choice' = QUICK_RUN
       ELSE pc' = "prompt" /\ UNCHANGED choice
  /\ UNCHANGED <<argVars, DEPENDENCIES_OK, tools, more, executed, startedOk,
                 wasFalse, exitCode, fsVars, download>>
  /\ UNCHANGED otherThanDeploy

\* print_menu; read -rp ... CHOICE: a line of n words
ReadLine ==
  /\ pc = "prompt"
  /\ \E n \in 0..MaxLine : more' = n
  /\ pc' = "loop"
  /\ UNCHANGED <<argVars, DEPENDENCIES_OK, tools, choice, executed, startedOk,
                 wasFalse, exitCode, fsVars, download>>
  /\ UNCHANGED otherThanDeploy

\* read fails at end of input: set -e ends the script
ReadEof ==
  /\ pc = "prompt"
  /\ Exit("1")
  /\ UNCHANGED <<argVars, DEPENDENCIES_OK, tools, choice, more, executed,
                 startedOk, wasFalse, fsVars, download>>
  /\ UNCHANGED otherThanDeploy

\* while the script waits at the prompt, a tool disappears from the machine
ToolRemoved ==
  /\ pc = "prompt"
  /\ \E t \in tools :
       /\ Cardinality(RequiredTools \ (tools \ {t})) <= MaxMissing
       /\ tools' = tools \ {t}
  /\ UNCHANGED <<argVars, DEPENDENCIES_OK, pc, choice, more, executed, startedOk,
                 wasFalse, exitCode, fsVars, download>>
  /\ UNCHANGED otherThanDeploy

\* `for num in $CHOICE; do run_item "$num"; done`
LoopNext ==
  /\ pc = "loop"
  /\ more > 0
  /\ \E num \in Choices : choice' = num
  /\ more' = more - 1
  /\ pc' = "run_item"
  /\ UNCHANGED <<argVars, DEPENDENCIES_OK, tools, executed, startedOk, wasFalse,
                 exitCode, fsVars, download>>
  /\ UNCHANGED otherThanDeploy

LoopDone ==
  /\ pc = "loop"
  /\ more = 0
  /\ pc' = "prompt"
  /\ UNCHANGED <<argVars, DEPENDENCIES_OK, tools, choice, more, executed,
                 startedOk, wasFalse, exitCode, fsVars, download>>
  /\ UNCHANGED otherThanDeploy

\* run_item's first lines: ensure_dependencies_for_choice; a return 1 from
\* run_item ends the script (set -e)
RunItemEnsure ==
  /\ pc = "run_item"
  /\ executed' = <<>>
  /\ download' = None
  /\ startedOk' = CheckDependencies(tools)
  /\ \/ /\ ~RequiresDependencies(choice)
        /\ pc' = "action"
        /\ UNCHANGED <<DEPENDENCIES_OK, wasFalse, exitCode>>
     \/ /\ RequiresDependencies(choice)
        /\ DEPENDENCIES_OK # "true"
        /\ Exit("1")
        /\ UNCHANGED <<DEPENDENCIES_OK, wasFalse>>
     \/ /\ RequiresDependencies(choice)
        /\ DEPENDENCIES_OK = "true"
        /\ ~CheckDependencies(tools)
        /\ DEPENDENCIES_OK' = "false"
        /\ wasFalse' = TRUE
        /\ Exit("1")
     \/ /\ RequiresDependencies(choice)
        /\ DEPENDENCIES_OK = "true"
        /\ CheckDependencies(tools)
        /\ pc' = "action"
        /\ UNCHANGED <<DEPENDENCIES_OK, wasFalse, exitCode>>
  /\ UNCHANGED <<argVars, tools, choice, more, fsVars>>
  /\ UNCHANGED otherThanDeploy

\* where run_item's case statement sends each choice
ActionEntry(c) ==
  CASE c = "1" -> "install"
    [] c \in SimpleItems -> "item"
    [] c = "12" -> "client_build"
    [] c = "13" -> "deploy_all"
    [] c = "14" -> "upd_download"
    [] c = "0" -> "exit"
    [] OTHER -> "invalid"

\* the case statement of run_item
RunItemCase ==
  /\ pc = "action"
  /\ pc' = ActionEntry(choice)
  /\ UNCHANGED <<argVars, DEPENDENCIES_OK, tools, choice, more, executed,
                 startedOk, wasFalse, exitCode, fsVars, download>>
  /\ UNCHANGED otherThanDeploy

\* 0) echo; exit 0
ItemExit ==
  /\ pc = "exit"
  /\ Exit("0")
  /\ UNCHANGED <<argVars, DEPENDENCIES_OK, tools, choice, more, executed,
                 startedOk, wasFalse, fsVars, download>>
  /\ UNCHANGED otherThanDeploy

\* *) echo "invalid option"
ItemInvalid ==
  /\ pc = "invalid"
  /\ pc' = "item_done"
  /\ UNCHANGED <<argVars, DEPENDENCIES_OK, tools, choice, more, executed,
                 startedOk, wasFalse, exitCode, fsVars, download>>
  /\ UNCHANGED otherThanDeploy

\* run_item returned 0: `exit 0` after --run, the next word of the line otherwise
ItemDone ==
  /\ pc = "item_done"
  /\ IF QUICK_RUN # "" THEN Exit("0") ELSE pc' = "loop" /\ UNCHANGED exitCode
  /\ UNCHANGED <<argVars, DEPENDENCIES_OK, tools, choice, more, executed,
                 startedOk, wasFalse, fsVars, download>>
  /\ UNCHANGED otherThanDeploy

\* install_system_deps: apt update and apt install (either may fail and end the
\* script; a run that succeeds puts some or all of the missing packaged tools
\* on the PATH), then the check that sets DEPENDENCIES_OK.  Called by item 1
\* and by full_deploy_all.
InstallSystemDeps ==
  /\ pc = "install"
  /\ \/ /\ Exit("1")
        /\ UNCHANGED <<tools, DEPENDENCIES_OK, wasFalse, executed>>
     \/ /\ \E installed \in SUBSET (AptTools \ tools) : tools' = tools \cup installed
        /\ executed' = Append(executed, "install_system_deps")
        /\ IF CheckDependencies(tools')
             THEN DEPENDENCIES_OK' = "true" /\ UNCHANGED wasFalse
             ELSE DEPENDENCIES_OK' = "false" /\ wasFalse' = TRUE
        /\ pc' = IF choice = "13" THEN "client_build" ELSE "item_done"
        /\ UNCHANGED exitCode
  /\ UNCHANGED <<argVars, choice, more, startedOk, fsVars, download>>
  /\ UNCHANGED otherThanDeploy

\* whether the function of a simple item can return 0 in the present directories:
\* server_create_symlink needs both, client_download_premake and
\* client_run_premake need the client directory
CanSucceed(c) ==
  /\ c = "4" => (clientDir /\ serverDir)
  /\ c \in {"7", "8"} => clientDir

\* whether a command of the item's function can fail
CanFail(c) ==
  \/ c \in {"2", "5", "6", "7", "8", "9"}
  \/ c = "3" /\ serverDir
  \/ c = "4" /\ ~(clientDir /\ serverDir)
  \/ c = "10" /\ clientDir

\* items 2..11: the item's function as one step
SimpleItem ==
  /\ pc = "item"
  /\ \/ /\ CanSucceed(choice)
        /\ executed' = Append(executed, choice)
        /\ serverDir' = (serverDir \/ choice = "2")
        /\ clientDir' = (clientDir \/ choice = "6")
        /\ pc' = "item_done"
        /\ UNCHANGED exitCode
     \/ /\ CanFail(choice)
        /\ Exit("1")
        /\ UNCHANGED <<executed, serverDir, clientDir>>
  /\ UNCHANGED <<argVars, DEPENDENCIES_OK, tools, choice, more, startedOk,
                 wasFalse, scriptFile, backupFile, download>>
  /\ UNCHANGED otherThanDeploy

\* full_deploy_all's first lines
FullDeployAll ==
  /\ pc = "deploy_all"
  /\ pc' = IF INSTALL_DEPS THEN "install" ELSE "client_build"
  /\ UNCHANGED <<argVars, DEPENDENCIES_OK, tools, choice, more, executed,
                 startedOk, wasFalse, exitCode, fsVars, download>>
  /\ UNCHANGED otherThanDeploy

\* full_client_build (item 12, and the second part of item 13): clone, premake,
\* sqlite, make, move; a failing step ends the script
FullClientBuild ==
  /\ pc = "client_build"
  /\ \/ /\ executed' = Append(executed, "full_client_build")
        /\ clientDir' = TRUE
        /\ pc' = IF choice = "13" THEN "server_prepare" ELSE "item_done"
        /\ UNCHANGED exitCode
     \/ /\ Exit("1")
        /\ clientDir' \in {clientDir, TRUE}
        /\ UNCHANGED executed
  /\ UNCHANGED <<argVars, DEPENDENCIES_OK, tools, choice, more, startedOk,
                 wasFalse, scriptFile, backupFile, serverDir, download>>
  /\ UNCHANGED otherThanDeploy

\* full_server_prepare: clone, npm install, symlink
FullServerPrepare ==
  /\ pc = "server_prepare"
  /\ \/ /\ executed' = Append(executed, "full_server_prepare")
        /\ serverDir' = TRUE
        /\ pc' = "item_done"
        /\ UNCHANGED exitCode
     \/ /\ Exit("1")
        /\ serverDir' \in {serverDir, TRUE}
        /\ UNCHANGED executed
  /\ UNCHANGED <<argVars, DEPENDENCIES_OK, tools, choice, more, startedOk,
                 wasFalse, scriptFile, backupFile, clientDir, download>>
  /\ UNCHANGED otherThanDeploy

(***************************************************************************)
(* update_services (item 14)                                               *)
(***************************************************************************)
\* what curl can leave: it failed; it wrote an empty file; it wrote a file
\* bash -n rejects; it wrote a valid script
Downloads == {"failed", "empty", "invalid", "valid"}

\* (the tests without bash -n)
ScriptUpdateBranchNoSyntaxCheck(d) == IF d \in {"valid", "invalid"} THEN "upd_backup" ELSE "upd_dirs"
\* the three nested tests: curl's status, [ -f ] && [ -s ], bash -n
ScriptUpdateBranch(d) == IF d = "valid" THEN "upd_backup" ELSE "upd_dirs"

\* curl -fsSL -o "$TEMP_SCRIPT" "$SCRIPT_URL" and the tests on its result
UpdDownload ==
  /\ pc = "upd_download"
  /\ \E d \in Downloads :
       /\ download' = d
       /\ pc' = ScriptUpdateBranch(d)
  /\ UNCHANGED <<argVars, DEPENDENCIES_OK, tools, choice, more, executed,
                 startedOk, wasFalse, exitCode, fsVars>>
  /\ UNCHANGED otherThanDeploy

\* chmod +x; cp "$CURRENT_SCRIPT" "${CURRENT_SCRIPT}.backup" (a failure ends the script)
UpdBackup ==
  /\ pc = "upd_backup"
  /\ \/ /\ backupFile' = scriptFile
        /\ executed' = Append(executed, "backup_script")
        /\ pc' = "upd_replace"
        /\ UNCHANGED exitCode
     \/ /\ Exit("1")
        /\ UNCHANGED <<backupFile, executed>>
  /\ UNCHANGED <<argVars, DEPENDENCIES_OK, tools, choice, more, startedOk,
                 wasFalse, scriptFile, serverDir, clientDir, download>>
  /\ UNCHANGED otherThanDeploy

\* cp "$TEMP_SCRIPT" "$CURRENT_SCRIPT"; rm -f "$TEMP_SCRIPT"
UpdReplace ==
  /\ pc = "upd_replace"
  /\ \/ /\ scriptFile' = "updated"
        /\ executed' = Append(executed, "replace_script")
        /\ pc' = "upd_dirs"
        /\ UNCHANGED exitCode
     \/ /\ Exit("1")
        /\ UNCHANGED <<scriptFile, executed>>
  /\ UNCHANGED <<argVars, DEPENDENCIES_OK, tools, choice, more, startedOk,
                 wasFalse, backupFile, serverDir, clientDir, download>>
  /\ UNCHANGED otherThanDeploy

\* the two directory checks: return 1 when either is missing
UpdDirs ==
  /\ pc = "upd_dirs"
  /\ IF serverDir /\ clientDir
       THEN pc' = "upd_pull_server" /\ UNCHANGED exitCode
       ELSE Exit("1")
  /\ UNCHANGED <<argVars, DEPENDENCIES_OK, tools, choice, more, executed,
                 startedOk, wasFalse, fsVars, download>>
  /\ UNCHANGED otherThanDeploy

\* git -C "$SERVER_DIR" pull
UpdPullServer ==
  /\ pc = "upd_pull_server"
  /\ \/ /\ executed' = Append(executed, "pull_server")
        /\ pc' = "upd_pull_client"
        /\ UNCHANGED exitCode
     \/ /\ Exit("1")
        /\ UNCHANGED executed
  /\ UNCHANGED <<argVars, DEPENDENCIES_OK, tools, choice, more, startedOk,
                 wasFalse, fsVars, download>>
  /\ UNCHANGED otherThanDeploy

\* git -C "$CLIENT_DIR" pull
UpdPullClient ==
  /\ pc = "upd_pull_client"
  /\ \/ /\ executed' = Append(executed, "pull_client")
        /\ pc' = "upd_pm2"
        /\ UNCHANGED exitCode
     \/ /\ Exit("1")
        /\ UNCHANGED executed
  /\ UNCHANGED <<argVars, DEPENDENCIES_OK, tools, choice, more, startedOk,
                 wasFalse, fsVars, download>>
  /\ UNCHANGED otherThanDeploy

\* pm2 absent: return 0; pm2 restart all: return 0, or return 1 when it fails
UpdPm2 ==
  /\ pc = "upd_pm2"
  /\ \/ pc' = "item_done" /\ UNCHANGED exitCode
     \/ Exit("1")
  /\ UNCHANGED <<argVars, DEPENDENCIES_OK, tools, choice, more, executed,
                 startedOk, wasFalse, fsVars, download>>
  /\ UNCHANGED otherThanDeploy

DeployNext ==
  \/ StartupCheck
  \/ Main
  \/ ReadLine
  \/ ReadEof
  \/ ToolRemoved
  \/ LoopNext
  \/ LoopDone
  \/ RunItemEnsure
  \/ RunItemCase
  \/ ItemExit
  \/ ItemInvalid
  \/ ItemDone
  \/ InstallSystemDeps
  \/ SimpleItem
  \/ FullDeployAll
  \/ FullClientBuild
  \/ FullServerPrepare
  \/ UpdDownload
  \/ UpdBackup
  \/ UpdReplace
  \/ UpdDirs
  \/ UpdPullServer
  \/ UpdPullClient
  \/ UpdPm2

(***************************************************************************)
(* Specifications                                                          *)
(***************************************************************************)
\* getPolyfillers, for every registry and caller version
InitSelect == RegistryInit /\ SelInit /\ DispatchInit /\ DeployIdle
SpecSelect == InitSelect /\ [][SelNext]_vars

\* the dispatcher functions, for every registry content and sequence of calls
InitDispatch == RegistryInitAscending /\ SelInit /\ DispatchInit /\ DeployIdle
SpecDispatch == InitDispatch /\ [][DispatchNext]_vars

\* the deployment script, for every command line, machine and typed input
InitDeploy == polyfillRegistry = <<>> /\ SelInit /\ DispatchInit /\ DeployInit
SpecDeploy == InitDeploy /\ [][DeployNext]_vars

(***************************************************************************)
(* Properties of getPolyfillers (checked under SpecSelect)                 *)
(***************************************************************************)
Range(f) == { f[i] : i \in DOMAIN f }

RegisteredKeys == { polyfillRegistry[i].pVersion : i \in DOMAIN polyfillRegistry }

\* the version under which the class of a returned polyfiller is registered
RegisteredVersion(p) ==
  (CHOOSE e \in Range(polyfillRegistry) : e.polyfillerCls = p.cls).pVersion

\* how often the polyfiller of a registry entry occurs in the returned sequence
Occurrences(e) == Cardinality({ k \in DOMAIN ret : ret[k].cls = e.polyfillerCls })

MinKey == CHOOSE v \in RegisteredKeys : \A w \in RegisteredKeys : v <= w
MaxKey == CHOOSE v \in RegisteredKeys : \A w \in RegisteredKeys : v >= w

\* C1: getPolyfillers(C) returns exactly one polyfiller for each registry entry
\* whose version is >= C and none for an entry below C; when C is <= every
\* registered version the result is as long as the registry; with registry
\* {1, 3} and C = 2 only the version-3 polyfiller is returned.
C1_ExactSelection ==
  pcSel = "returned" =>
    /\ \A e \in Range(polyfillRegistry) :
         Occurrences(e) = IF e.pVersion >= selVersion THEN 1 ELSE 0
    /\ Len(ret) = Cardinality({ v \in RegisteredKeys : v >= selVersion })
    /\ (\A v \in RegisteredKeys : selVersion <= v) => Len(ret) = Len(polyfillRegistry)
    /\ (RegisteredKeys = {1, 3} /\ selVersion = 2) => ret = <<[cls |-> 3]>>

\* the scenario of C1: registry {1, 3}, caller version 2, the call has returned
C1_Witness ==
  /\ pcSel = "returned"
  /\ RegisteredKeys = {1, 3}
  /\ selVersion = 2
  /\ ret = <<[cls |-> 3]>>

\* C2: whatever the registry's iteration order, the returned sequence is sorted
\* strictly ascending by registered version.
C2_SortedAscending ==
  pcSel = "returned" =>
    \A i, j \in DOMAIN ret :
      i < j => RegisteredVersion(ret[i]) < RegisteredVersion(ret[j])

\* a registry that iterates in descending order, all of it selected and returned
C2_Witness ==
  /\ pcSel = "returned"
  /\ Len(polyfillRegistry) = 3
  /\ \A i, j \in DOMAIN polyfillRegistry :
       i < j => polyfillRegistry[i].pVersion > polyfillRegistry[j].pVersion
  /\ Len(ret) = 3

\* C3 as stated: the full set below all registered versions, the empty set at
\* or above the maximum registered version, the maximum itself included.
C3_EmptyAtOrAboveMax ==
  (pcSel = "returned" /\ polyfillRegistry # <<>>) =>
    /\ selVersion < MinKey => Len(ret) = Len(polyfillRegistry)
    /\ selVersion >= MaxKey => ret = <<>>

\* C3, amended: the full set below all registered versions, the empty set
\* strictly above the maximum, and exactly the maximum version's polyfiller
\* when the caller version equals the maximum.
C3_EmptyAboveMax ==
  (pcSel = "returned" /\ polyfillRegistry # <<>>) =>
    /\ selVersion < MinKey =>
         /\ Len(ret) = Len(polyfillRegistry)
         /\ { p.cls : p \in Range(ret) } =
              { e.polyfillerCls : e \in Range(polyfillRegistry) }
    /\ selVersion > MaxKey => ret = <<>>
    /\ selVersion = MaxKey =>
         /\ Len(ret) = 1
         /\ RegisteredVersion(ret[1]) = MaxKey

\* a call with the caller version equal to the maximum registered version
C3_Witness ==
  /\ pcSel = "returned"
  /\ Len(polyfillRegistry) >= 2
  /\ selVersion = MaxKey
  /\ Len(ret) = 1

(***************************************************************************)
(* Properties of the dispatcher functions (checked under SpecDispatch)     *)
(***************************************************************************)
Called == latest.fn # None

IntendedLatest == IntendedDispatch(latest.version, latest.msgTitle, latest.buffer)

\* C4: a call passes the buffer through every selected polyfiller that handles
\* msgTitle, lower versions first, and returns the final transformed payload.
C4_ChainApplied ==
  (/\ Called
   /\ Cardinality(Handlers(latest.version, latest.msgTitle)) >= 2
   /\ IntendedLatest.outcome = "fulfilled") =>
    /\ latest.outcome = "fulfilled"
    /\ latest.value = IntendedLatest.value

\* C5: when no selected polyfiller recognizes msgTitle the call does not fail
\* and its output is the input buffer, unmodified.
C5_UnknownPassesThrough ==
  (Called /\ Handlers(latest.version, latest.msgTitle) = {}) =>
    /\ latest.outcome = "fulfilled"
    /\ latest.value = Payload(latest.buffer)

\* C6: when a selected polyfiller that handles msgTitle cannot parse the buffer,
\* the call fails with Malformed-Payload and returns no output.
C6_MalformedPropagates ==
  (Called /\ IntendedLatest.outcome = "rejected") =>
    /\ latest.outcome = "rejected"
    /\ latest.value = ErrorValue("Malformed-Payload")

SameCall(a, b) ==
  /\ a.fn = b.fn
  /\ a.version = b.version
  /\ a.msgTitle = b.msgTitle
  /\ a.buffer = b.buffer

\* C7: two calls with identical (version, msgTitle, buffer) and the same registry
\* yield identical output, whatever other calls were made before or between.
C7_SameCallSameOutput ==
  (earlier.fn # None /\ SameCall(earlier, latest)) =>
    /\ earlier.outcome = latest.outcome
    /\ earlier.value = latest.value

\* the same call made twice, with other calls made as well
C7_Witness ==
  /\ earlier.fn # None
  /\ SameCall(earlier, latest)
  /\ nCalls >= 3

(***************************************************************************)
(* Properties of the deployment script (checked under SpecDeploy)          *)
(***************************************************************************)
\* run_item has finished with the current choice: it returned, or the script ended
ItemFinished == pc \in {"item_done", "exited", "loop", "prompt"} /\ choice # None

\* C8: started with --install-deps while a required tool is missing, a full
\* deploy (item 13) runs install_system_deps, and runs it before any
\* client-build or server-prepare step.
C8_InstallDepsInstalls ==
  (INSTALL_DEPS /\ choice = "13" /\ ~startedOk /\ ItemFinished) =>
    /\ executed # <<>>
    /\ executed[1] = "install_system_deps"

\* C9: an item other than 0 and 1 starts its action only with DEPENDENCIES_OK
\* "true" and every required tool present at that moment; DEPENDENCIES_OK goes
\* from "false" to "true" only by the successful check that ends
\* install_system_deps.
C9_ActionsNeedDependencies ==
  /\ [](pc = "action" /\ choice \notin {"0", "1"} =>
          DEPENDENCIES_OK = "true" /\ CheckDependencies(tools))
  /\ [][(DEPENDENCIES_OK = "false" /\ DEPENDENCIES_OK' = "true") =>
          (/\ pc = "install"
           /\ CheckDependencies(tools')
           /\ executed' = Append(executed, "install_system_deps"))]_vars

\* DEPENDENCIES_OK was "false", item 1 repaired it, and item 2 now starts
C9_Witness ==
  /\ wasFalse
  /\ pc = "action"
  /\ choice = "2"
  /\ DEPENDENCIES_OK = "true"

Before(a, b) ==
  \E i, j \in DOMAIN executed : i < j /\ executed[i] = a /\ executed[j] = b

=============================================================================
